---- MODULE Spec2Model ----
(***************************************************************************)
(* Model of curl/communicator/communicator.py: the Communicator base class *)
(* (verbosity flag, communication statistics, generator lookup) and the    *)
(* _logging decorator that wraps every collective of a backend; and of the *)
(* learning-rate schedule of examples/mpc_cifar/mpc_cifar.py.              *)
(***************************************************************************)
EXTENDS Integers, Sequences, FiniteSets, TLC

\* ---------------------------------------------------------------- bounds
MaxWorld == 2
MaxElems == 1
MaxList == 2
MaxRounds == 2
MaxDur == 1
MaxIdx == 2
MaxParties == 4
MaxSubclasses == 2
MaxEpoch == 31
MaxGroups == 2

\* Per-element byte width; the backends define it, _log_communication reads it.
BYTES_PER_ELEMENT == 8

VARIABLES
    world_size,     \* what self.get_world_size() returns
    verbosity,      \* Communicator.__verbosity
    has_stats,      \* whether comm_rounds/comm_bytes/comm_time exist on self
    comm_rounds,
    comm_bytes,
    comm_time,
    call,           \* the last wrapped call, until its caller goes on
    hist,           \* the wrapped calls issued since the last reset
    printed,        \* what print_communication_stats logged last
    last_op,        \* the operation that produced this state
    life,           \* lifecycle of the process-wide communicator
    gens,           \* the generator attributes (g0, g1, g0_cuda, g1_cuda) set
    query,          \* the last lifecycle or generator query and its result
    pc,             \* barrier rendezvous: where each party is
    pverb,          \* barrier rendezvous: each party's verbosity flag
    entered,        \* barrier rendezvous: the parties inside the backend barrier
    cls_verbosity,  \* the __verbosity attribute of each class, or "unset"
    vquery,         \* the last set_verbosity / is_verbose call and its result
    epochs,         \* mpc_cifar: the epochs argument of the run
    epoch,          \* mpc_cifar: the loop variable of the training loop
    lr,             \* mpc_cifar: the lr argument of the run
    param_groups,   \* mpc_cifar: the lr of each optimizer.param_groups entry
    adjusted        \* mpc_cifar: the epoch adjust_learning_rate last ran for

statsVars == <<world_size, verbosity, has_stats, comm_rounds, comm_bytes,
               comm_time, call, hist, printed, last_op>>
registryVars == <<life, gens, query>>
barrierVars == <<pc, pverb, entered>>
classVars == <<cls_verbosity, vquery>>
trainVars == <<epochs, epoch, lr, param_groups, adjusted>>
vars == <<statsVars, registryVars, barrierVars, classVars, trainVars>>

\* ---------------------------------------------------------------- values
Tensor(k) == [kind |-> "tensor", n |-> k, items |-> <<>>]
TensorList(s) == [kind |-> "list", n |-> 0, items |-> s]
NoValue == [kind |-> "none", n |-> 0, items |-> <<>>]

Tensors == {Tensor(k) : k \in 0..MaxElems}
ElemSeqs == UNION {[1..l -> 0..MaxElems] : l \in 0..MaxList}
TensorLists == {TensorList(s) : s \in ElemSeqs}

\* x.nelement()
nelement(x) == x.n

PayloadFuncs == {"send", "recv", "scatter", "reduce", "all_reduce", "gather",
                 "all_gather", "broadcast"}
WrappedFuncs == PayloadFuncs \cup {"barrier"}

BackendValues == {"result"}

RECURSIVE SumElems(_)
SumElems(s) == IF s = <<>> THEN 0 ELSE Head(s) + SumElems(Tail(s))

\* ------------------------------------------------------- StatsTracker
Stats(has, r, b, t) == [has |-> has, rounds |-> r, bytes |-> b, time |-> t]

\* A reset that forgets comm_time.
ResetStatsKeepsTime(st) == Stats(TRUE, 0, 0, st.time)

\* reset_communication_stats: creates (or overwrites) the three counters.
ResetStats(st) == Stats(TRUE, 0, 0, 0)

\* _log_communication(self, nelement): the body. The first += reads
\* self.comm_rounds, which raises AttributeError when no reset ever ran.
LogCommunication(st, nelem) ==
    IF ~st.has
    THEN [err |-> "AttributeError", st |-> st]
    ELSE [err |-> "none",
          st |-> Stats(TRUE, st.rounds + 1,
                       st.bytes + nelem * BYTES_PER_ELEMENT, st.time)]

\* A _log_communication that takes the extra argument and ignores it.
CallLogCommunicationLenient(st, argv) ==
    IF Len(argv) = 0
    THEN [err |-> "TypeError", st |-> st]
    ELSE LogCommunication(st, argv[1])

\* A call self._log_communication(*argv): the method takes exactly one
\* argument besides self, any other number raises TypeError before the body.
CallLogCommunication(st, argv) ==
    IF Len(argv) # 1
    THEN [err |-> "TypeError", st |-> st]
    ELSE LogCommunication(st, argv[1])

\* A time log that subtracts the duration.
LogCommunicationTimeNegated(st, d) ==
    Stats(st.has, st.rounds, st.bytes, st.time - d)

\* _log_communication_time(self, comm_time)
LogCommunicationTime(st, d) == Stats(st.has, st.rounds, st.bytes, st.time + d)

\* print_communication_stats: the three values logged after the banner.
PrintStats(st) == <<st.rounds, st.bytes, st.time>>

\* ------------------------------------------------- InstrumentationWrapper
\* A call is func(self, *args, **kwargs). args holds the payload when it is
\* passed positionally (further positionals never reach the wrapper's tests);
\* kwargs holds the batched flag and the payload when passed by keyword.
NoKwargs == [batched |-> "absent", payload |-> NoValue]

Returned(form, x, v) == [form |-> form, x |-> x, v |-> v]
NoReturn == Returned("none", NoValue, "none")

\* A shortcut that also swallows the calls without a positional payload.
DegenerateAlways(func, args) ==
    IF func \in {"gather", "all_gather"} /\ Len(args) > 0
    THEN [hit |-> TRUE, err |-> "none",
          ret |-> Returned("list_of_payload", args[1], "none")]
    ELSE [hit |-> TRUE, err |-> "none",
          ret |-> IF Len(args) > 0
                  THEN Returned("payload", args[1], "none") ELSE NoReturn]

\* Lines 176-180: the world_size < 2 shortcut.
Degenerate(func, args) ==
    IF func \in {"gather", "all_gather"}
    THEN IF Len(args) = 0
         THEN [hit |-> TRUE, err |-> "IndexError", ret |-> NoReturn]
         ELSE [hit |-> TRUE, err |-> "none",
               ret |-> Returned("list_of_payload", args[1], "none")]
    ELSE IF Len(args) > 0
         THEN [hit |-> TRUE, err |-> "none",
               ret |-> Returned("payload", args[1], "none")]
         ELSE [hit |-> FALSE, err |-> "none", ret |-> NoReturn]

\* Lines 184-192: the arguments the wrapper hands to _log_communication.
LoggedArgs(func, args, kwargs) ==
    IF func = "barrier"
    THEN [err |-> "none", argv |-> <<0, 1>>]
    ELSE IF Len(args) = 0
    THEN [err |-> "IndexError", argv |-> <<>>]
    ELSE IF func = "scatter"
    THEN IF args[1].kind # "list" \/ Len(args[1].items) = 0
         THEN [err |-> "IndexError", argv |-> <<>>]
         ELSE [err |-> "none",
               argv |-> <<args[1].items[1] * (Len(args[1].items) - 1)>>]
    ELSE IF kwargs.batched = "true"
    THEN IF args[1].kind # "list"
         THEN [err |-> "TypeError", argv |-> <<>>]
         ELSE [err |-> "none", argv |-> <<SumElems(args[1].items)>>]
    ELSE IF args[1].kind # "tensor"
         THEN [err |-> "AttributeError", argv |-> <<>>]
         ELSE [err |-> "none", argv |-> <<nelement(args[1])>>]

Invocation(args, kwargs) == [args |-> args, kwargs |-> kwargs]

Outcome(err, ret, st, invoked) ==
    [outcome |-> IF err = "none" THEN "return" ELSE "raise",
     err |-> err, ret |-> ret, st |-> st, backend |-> invoked]

\* func(self, *args, **kwargs): the backend's collective, which either
\* returns a value or raises.
Backend(func, args, kwargs, b) ==
    [err |-> IF b.raises THEN "CommunicationError" ELSE "none",
     ret |-> IF b.raises THEN NoReturn ELSE Returned("backend", NoValue, b.val),
     invoked |-> <<Invocation(args, kwargs)>>]

\* A verbose path that catches the backend's exception and returns None.
VerbosePathSwallows(func, args, kwargs, st, b, d) ==
    LET la == LoggedArgs(func, args, kwargs) IN
    IF la.err # "none" THEN Outcome(la.err, NoReturn, st, <<>>)
    ELSE LET lg == CallLogCommunication(st, la.argv) IN
         IF lg.err # "none" THEN Outcome(lg.err, NoReturn, st, <<>>)
         ELSE LET r == Backend(func, args, kwargs, b) IN
              Outcome("none", r.ret, LogCommunicationTime(lg.st, d),
                      r.invoked)

\* A verbose path that records the round and the bytes only once the backend
\* has returned.
VerbosePathLogsAfter(func, args, kwargs, st, b, d) ==
    LET la == LoggedArgs(func, args, kwargs) IN
    IF la.err # "none" THEN Outcome(la.err, NoReturn, st, <<>>)
    ELSE LET r == Backend(func, args, kwargs, b) IN
         IF r.err # "none" THEN Outcome(r.err, NoReturn, st, r.invoked)
         ELSE LET lg == CallLogCommunication(st, la.argv) IN
              IF lg.err # "none" THEN Outcome(lg.err, NoReturn, st, r.invoked)
              ELSE Outcome("none", r.ret, LogCommunicationTime(lg.st, d),
                           r.invoked)

\* Lines 183-199: the verbose path.
VerbosePath(func, args, kwargs, st, b, d) ==
    LET la == LoggedArgs(func, args, kwargs) IN
    IF la.err # "none" THEN Outcome(la.err, NoReturn, st, <<>>)
    ELSE LET lg == CallLogCommunication(st, la.argv) IN
         IF lg.err # "none" THEN Outcome(lg.err, NoReturn, st, <<>>)
         ELSE LET r == Backend(func, args, kwargs, b) IN
              IF r.err # "none"
              THEN Outcome(r.err, NoReturn, lg.st, r.invoked)
              ELSE Outcome("none", r.ret, LogCommunicationTime(lg.st, d),
                           r.invoked)

\* A quiet path that records the call all the same.
QuietPathLogs(func, args, kwargs, st, b) ==
    VerbosePath(func, args, kwargs, st, b, 0)

\* Line 201: the quiet path.
QuietPath(func, args, kwargs, st, b) ==
    LET r == Backend(func, args, kwargs, b) IN
    Outcome(r.err, r.ret, st, r.invoked)

\* Lines 172-201: logging_wrapper(self, *args, **kwargs).
LoggingWrapper(func, args, kwargs, ws, verbose, st, b, d) ==
    LET dg == Degenerate(func, args) IN
    IF ws < 2 /\ dg.hit
    THEN Outcome(dg.err, dg.ret, st, <<>>)
    ELSE IF verbose
         THEN VerbosePath(func, args, kwargs, st, b, d)
         ELSE QuietPath(func, args, kwargs, st, b)

\* ------------------------------------------------------------ the calls
NoBackend == [raises |-> FALSE, val |-> "none"]

NoCall == [func |-> "none", args |-> <<>>, kwargs |-> NoKwargs,
           ws |-> 0, verbose |-> FALSE, had_stats |-> FALSE,
           after_failure |-> FALSE, outcome |-> "none", err |-> "none", ret |-> NoReturn,
           backend |-> <<>>, b |-> NoBackend]

\* hist: the number n of calls issued since the last reset, all of them plain
\* collectives of k elements (k = -1 before the first); or Mixed.
NoHist == [n |-> 0, plain |-> TRUE, k |-> -1]
Mixed == [n |-> 0, plain |-> FALSE, k |-> -1]

CurStats == Stats(has_stats, comm_rounds, comm_bytes, comm_time)

BackendOutcomes == {[raises |-> TRUE, val |-> "none"]}
                   \cup {[raises |-> FALSE, val |-> v] : v \in BackendValues}

\* The inputs a caller can hand to a wrapped function: the payload is a list
\* for scatter and for a batched call and a tensor otherwise, and goes either
\* in args or in kwargs.
PayloadsOf(func, batched) ==
    IF func = "barrier" THEN {NoValue}
    ELSE IF func = "scatter" \/ batched = "true" THEN TensorLists
    ELSE Tensors

BatchedOf(func) ==
    IF func \in {"barrier", "scatter"} THEN {"absent"}
    ELSE {"absent", "false", "true"}

PassingOf(func) ==
    IF func = "barrier" THEN {"positional"} ELSE {"positional", "keyword"}

ArgsOf(x, passing) ==
    IF x = NoValue \/ passing = "keyword" THEN <<>> ELSE <<x>>

KwargsOf(x, passing, batched) ==
    [batched |-> batched,
     payload |-> IF passing = "keyword" THEN x ELSE NoValue]

\* Whether a call is one of the plain collectives: a payload collective other
\* than scatter, not batched, issued with verbosity on.
IsPlain(func, kwargs, verbose) ==
    /\ func \in PayloadFuncs \ {"scatter"}
    /\ kwargs.batched # "true"
    /\ verbose

PayloadOf(args, kwargs) == IF Len(args) > 0 THEN args[1] ELSE kwargs.payload

HistAfter(h, func, args, kwargs, verbose) ==
    LET x == PayloadOf(args, kwargs) IN
    IF h.plain /\ IsPlain(func, kwargs, verbose) /\ (h.k = -1 \/ h.k = x.n)
    THEN [n |-> h.n + 1, plain |-> TRUE, k |-> x.n]
    ELSE Mixed

\* The clock readings toc - tic the call can see: timeit.default_timer is
\* monotonic, and is read only on the verbose path around a backend call
\* that returns.
Durations(func, args, kwargs, ws, verbose, b) ==
    IF LoggingWrapper(func, args, kwargs, ws, verbose, Stats(TRUE, 0, 0, 0),
                      b, 0).outcome = "return" /\ verbose
    THEN 0..MaxDur ELSE {0}

StatsInit ==
    /\ verbosity = FALSE
    /\ has_stats = FALSE
    /\ comm_rounds = 0
    /\ comm_bytes = 0
    /\ comm_time = 0
    /\ call = NoCall
    /\ hist = NoHist
    /\ printed = <<>>
    /\ last_op = "other"

\* Communicator.set_verbosity(verbosity)
SetVerbosity ==
    \E v \in BOOLEAN :
        /\ verbosity' = v
        /\ call' = NoCall
        /\ printed' = <<>>
        /\ last_op' = "other"
        /\ UNCHANGED <<world_size, has_stats, comm_rounds, comm_bytes,
                       comm_time, hist>>
        /\ UNCHANGED <<registryVars, barrierVars, classVars, trainVars>>

\* self.reset_communication_stats()
Reset ==
    LET st == ResetStats(CurStats) IN
    /\ has_stats' = st.has
    /\ comm_rounds' = st.rounds
    /\ comm_bytes' = st.bytes
    /\ comm_time' = st.time
    /\ hist' = NoHist
    /\ printed' = <<>>
    /\ last_op' = "reset"
    /\ UNCHANGED <<world_size, verbosity, call>>
    /\ UNCHANGED <<registryVars, barrierVars, classVars, trainVars>>

\* self.print_communication_stats(), once the counters exist
Report ==
    /\ has_stats
    /\ printed' = PrintStats(CurStats)
    /\ last_op' = "report"
    /\ UNCHANGED <<world_size, verbosity, has_stats, comm_rounds, comm_bytes,
                   comm_time, call, hist>>
    /\ UNCHANGED <<registryVars, barrierVars, classVars, trainVars>>

\* One call of a wrapped function, from entry to return or raise.
WrappedCall ==
    /\ call = NoCall
    /\ comm_rounds < MaxRounds
    /\ hist.n < MaxRounds
    /\ \E func \in WrappedFuncs :
       \E batched \in BatchedOf(func), passing \in PassingOf(func) :
       \E x \in PayloadsOf(func, batched) :
       \E b \in BackendOutcomes :
        LET args == ArgsOf(x, passing)
            kwargs == KwargsOf(x, passing, batched)
        IN \E d \in Durations(func, args, kwargs, world_size, verbosity, b) :
           \E r \in {LoggingWrapper(func, args, kwargs, world_size, verbosity,
                                    CurStats, b, d)} :
              /\ has_stats' = r.st.has
              /\ comm_rounds' = r.st.rounds
              /\ comm_bytes' = r.st.bytes
              /\ comm_time' = r.st.time
              /\ call' = [func |-> func, args |-> args, kwargs |-> kwargs,
                          ws |-> world_size, verbose |-> verbosity,
                          had_stats |-> has_stats,
                          after_failure |-> last_op = "failed",
                          outcome |-> r.outcome, err |-> r.err,
                          ret |-> r.ret, backend |-> r.backend,
                          b |-> IF r.backend = <<>> THEN NoBackend ELSE b]
              /\ hist' = HistAfter(hist, func, args, kwargs, verbosity)
              /\ printed' = <<>>
              /\ last_op' = "call"
              /\ UNCHANGED <<world_size, verbosity>>
              /\ UNCHANGED <<registryVars, barrierVars, classVars, trainVars>>

\* The caller takes the result (or handles the exception) and goes on;
\* last_op remembers a call that the backend failed.
Resume ==
    /\ call # NoCall
    /\ call' = NoCall
    /\ last_op' = IF last_op = "call" /\ call.err = "CommunicationError"
                  THEN "failed" ELSE "other"
    /\ UNCHANGED <<world_size, verbosity, has_stats, comm_rounds, comm_bytes,
                   comm_time, hist, printed>>
    /\ UNCHANGED <<registryVars, barrierVars, classVars, trainVars>>

\* ------------------------------------------------------ GeneratorRegistry
Devices == {"None", "cpu", "cuda", "cuda:0", "not-a-device"}

\* Lines 150-153: torch.device(device).type, "cpu" when device is None;
\* torch.device rejects a string that names no device.
DeviceType(device) ==
    IF device \in {"None", "cpu"} THEN "cpu"
    ELSE IF device \in {"cuda", "cuda:0"} THEN "cuda"
    ELSE "invalid"

\* A name that leaves the device class out.
GeneratorNameAnyClass(idx, type) == <<"g", idx, "">>

\* Line 158
GeneratorName(idx, type) ==
    IF type = "cuda" THEN <<"g", idx, "cuda">> ELSE <<"g", idx, "">>

\* The attributes getattr(self, generator_name, None) can find: any g<i> or
\* g<i>_cuda that was set on the communicator.
GeneratorNames ==
    {GeneratorName(i, t) : i \in -1..MaxIdx, t \in {"cpu", "cuda"}}

NoGenerator == <<"none", -1, "">>

Answer(op, idx, device, err, ret) ==
    [op |-> op, idx |-> idx, device |-> device, err |-> err, ret |-> ret]
NoQuery == Answer("none", -1, "None", "none", NoGenerator)

\* A get_generator that looks the attribute up before it checks the range.
GetGeneratorLookupFirst(idx, device, table) ==
    LET type == DeviceType(device) IN
    IF type = "invalid"
    THEN Answer("get_generator", idx, device, "InvalidDevice", NoGenerator)
    ELSE LET generator_name == GeneratorName(idx, type) IN
         IF generator_name \in table
         THEN Answer("get_generator", idx, device, "none", generator_name)
         ELSE IF idx \notin {0, 1}
         THEN Answer("get_generator", idx, device, "OutOfBounds", NoGenerator)
         ELSE Answer("get_generator", idx, device, "GeneratorNotInitialized",
                     NoGenerator)

\* Lines 141-166: get_generator(self, idx, device=None)
GetGenerator(idx, device, table) ==
    LET type == DeviceType(device) IN
    IF type = "invalid"
    THEN Answer("get_generator", idx, device, "InvalidDevice", NoGenerator)
    ELSE IF idx \notin {0, 1}
    THEN Answer("get_generator", idx, device, "OutOfBounds", NoGenerator)
    ELSE LET generator_name == GeneratorName(idx, type) IN
         IF generator_name \notin table
         THEN Answer("get_generator", idx, device, "GeneratorNotInitialized",
                     NoGenerator)
         ELSE Answer("get_generator", idx, device, "none", generator_name)

\* ------------------------------------------------------------ lifecycle
\* An is_initialized that shutdown does not clear.
IsInitializedSticky(l) == l # "uninitialized"

\* is_initialized / get / initialize / shutdown are left to the backend.
IsInitialized(l) == l = "initialized"

GetHandle(l) ==
    IF IsInitialized(l)
    THEN Answer("get", -1, "None", "none", <<"handle", -1, "">>)
    ELSE Answer("get", -1, "None", "NotInitialized", NoGenerator)

RegistryInit ==
    /\ life = "uninitialized"
    /\ gens = {}
    /\ query = NoQuery

Initialize ==
    /\ IF IsInitialized(life)
       THEN /\ query' = Answer("initialize", -1, "None", "ContractViolation",
                               NoGenerator)
            /\ UNCHANGED life
       ELSE /\ life' = "initialized"
            /\ query' = Answer("initialize", -1, "None", "none", NoGenerator)
    /\ UNCHANGED <<gens, statsVars, barrierVars, classVars, trainVars>>

Shutdown ==
    /\ IsInitialized(life)
    /\ life' = "shutdown"
    /\ query' = Answer("shutdown", -1, "None", "none", NoGenerator)
    /\ UNCHANGED <<gens, statsVars, barrierVars, classVars, trainVars>>

QueryIsInitialized ==
    /\ query' = Answer("is_initialized", -1, "None", "none",
                       <<"bool", IF IsInitialized(life) THEN 1 ELSE 0, "">>)
    /\ UNCHANGED <<life, gens, statsVars, barrierVars, classVars, trainVars>>

QueryGet ==
    /\ query' = GetHandle(life)
    /\ UNCHANGED <<life, gens, statsVars, barrierVars, classVars, trainVars>>

\* Global setup creates a generator attribute.
Provision ==
    \E name \in GeneratorNames :
        /\ name \notin gens
        /\ gens' = gens \cup {name}
        /\ query' = NoQuery
        /\ UNCHANGED <<life, statsVars, barrierVars, classVars, trainVars>>

QueryGenerator ==
    \E idx \in -1..MaxIdx, device \in Devices :
        /\ query' = GetGenerator(idx, device, gens)
        /\ UNCHANGED <<life, gens, statsVars, barrierVars, classVars, trainVars>>

\* ------------------------------------------------------ barrier rendezvous
Parties == 1..world_size

BarrierInit ==
    /\ pc = [p \in Parties |-> "idle"]
    /\ pverb = [p \in Parties |-> FALSE]
    /\ entered = {}

\* The backend barrier lets a party go once the whole group has entered.
BarrierOpen(arrived, ws) == arrived = 1..ws

\* Each party is its own process, with its own verbosity flag.
PartySetVerbosity ==
    \E p \in Parties, v \in BOOLEAN :
        /\ pc[p] = "idle"
        /\ pverb[p] # v
        /\ pverb' = [pverb EXCEPT ![p] = v]
        /\ UNCHANGED <<pc, entered, statsVars, registryVars, classVars, trainVars>>

\* Party p calls the wrapped barrier: the wrapper runs up to the backend call.
\* (The party's counters exist: its communicator reset them.)
PartyCall ==
    \E p \in Parties :
    \E r \in {LoggingWrapper("barrier", <<>>, NoKwargs, world_size, pverb[p],
                             Stats(TRUE, 0, 0, 0),
                             [raises |-> FALSE, val |-> "result"], 0)} :
        /\ pc[p] = "idle"
        /\ IF r.backend # <<>>
           THEN /\ pc' = [pc EXCEPT ![p] = "in_barrier"]
                /\ entered' = entered \cup {p}
           ELSE /\ pc' = [pc EXCEPT ![p] =
                            IF r.outcome = "raise" THEN "failed" ELSE "returned"]
                /\ UNCHANGED entered
        /\ UNCHANGED <<pverb, statsVars, registryVars, classVars, trainVars>>

\* The backend barrier releases party p, and the wrapper returns.
PartyReturn ==
    \E p \in Parties :
        /\ pc[p] = "in_barrier"
        /\ BarrierOpen(entered, world_size)
        /\ pc' = [pc EXCEPT ![p] = "returned"]
        /\ UNCHANGED <<pverb, entered, statsVars, registryVars, classVars, trainVars>>

\* Party p's caller handles the exception its barrier call raised.
PartyRecover ==
    \E p \in Parties :
        /\ pc[p] = "failed"
        /\ pc' = [pc EXCEPT ![p] = "idle"]
        /\ UNCHANGED <<pverb, entered, statsVars, registryVars, classVars, trainVars>>

\* ------------------------------------------------------ class verbosity
\* The Communicator class (0) and the backend classes derived from it.
Communicator == 0
Classes == {Communicator} \cup (1..MaxSubclasses)

\* What a caller names to reach the classmethods: a class or an instance of
\* it; cls is bound to the class either way.
Receivers == [cls : Classes, inst : BOOLEAN]

\* What a caller can pass: the two booleans and something that is no boolean.
VerbosityArgs == {"True", "False", "1"}

\* Line 20: only Communicator's class body assigns __verbosity.
ClassInit ==
    /\ cls_verbosity = [c \in Classes |->
                           IF c = Communicator THEN "False" ELSE "unset"]
    /\ vquery = [op |-> "none", cls |-> Communicator, inst |-> FALSE,
                 arg |-> "none", err |-> "none", ret |-> "none"]

\* Lines 22-24: cls._Communicator__verbosity, found on cls or, when cls has
\* no attribute of its own, on Communicator.
IsVerbose(cls, attrs) ==
    IF attrs[cls] # "unset" THEN attrs[cls] ELSE attrs[Communicator]

\* Lines 26-29: the assignment creates or rebinds the attribute on cls.
SetVerbosityOf(cls, v, attrs) ==
    IF v \notin {"True", "False"}
    THEN [err |-> "AssertionError", attrs |-> attrs]
    ELSE [err |-> "none", attrs |-> [attrs EXCEPT ![cls] = v]]

CallSetVerbosity ==
    \E r \in Receivers, v \in VerbosityArgs :
        LET s == SetVerbosityOf(r.cls, v, cls_verbosity) IN
        /\ cls_verbosity' = s.attrs
        /\ vquery' = [op |-> "set_verbosity", cls |-> r.cls, inst |-> r.inst,
                      arg |-> v, err |-> s.err, ret |-> "none"]
        /\ UNCHANGED <<statsVars, registryVars, barrierVars, trainVars>>

CallIsVerbose ==
    \E r \in Receivers :
        /\ vquery' = [op |-> "is_verbose", cls |-> r.cls, inst |-> r.inst,
                      arg |-> "none", err |-> "none",
                      ret |-> IsVerbose(r.cls, cls_verbosity)]
        /\ UNCHANGED <<cls_verbosity, statsVars, registryVars, barrierVars,
                       trainVars>>

\* ------------------------------------------------------ mpc_cifar training
\* A learning rate m * 10^(-e), m not a multiple of 10.
LearningRate(m, e) == [m |-> m, e |-> e]

\* The lr arguments tried: 0.001 (the default of run_mpc_cifar), 0.01 (the
\* default of adjust_learning_rate) and 0.5.
LearningRates == {LearningRate(1, 3), LearningRate(1, 2), LearningRate(5, 1)}

\* x * (0.1 ** k)
TimesTenthPower(x, k) == LearningRate(x.m, x.e + k)

TrainingInit ==
    /\ epochs = 0
    /\ epoch = 0
    /\ lr = LearningRate(1, 3)
    /\ param_groups = <<>>
    /\ adjusted = -1

\* mpc_cifar.py:332-336: adjust_learning_rate(optimizer, epoch, lr)
AdjustLearningRate(groups, ep, initial) ==
    LET new_lr == TimesTenthPower(initial, ep \div 5) IN
    [g \in DOMAIN groups |-> new_lr]

\* mpc_cifar.py:28-55: run_mpc_cifar builds the optimizer with lr; start_epoch
\* is the argument or the epoch of the checkpoint resumed from.
RunMpcCifar ==
    \E e \in 0..MaxEpoch, start_epoch \in 0..MaxEpoch, l \in LearningRates,
       n \in 1..MaxGroups :
        /\ param_groups = <<>>
        /\ epochs' = e
        /\ epoch' = start_epoch
        /\ lr' = l
        /\ param_groups' = [g \in 1..n |-> l]
        /\ adjusted' = -1
        /\ UNCHANGED <<statsVars, registryVars, barrierVars, classVars>>

\* mpc_cifar.py:117-118: one pass of the training loop; training and
\* validation leave the learning rates alone.
TrainEpoch ==
    /\ param_groups # <<>>
    /\ epoch < epochs
    /\ param_groups' = AdjustLearningRate(param_groups, epoch, lr)
    /\ adjusted' = epoch
    /\ epoch' = epoch + 1
    /\ UNCHANGED <<epochs, lr, statsVars, registryVars, barrierVars,
                   classVars>>

\* ------------------------------------------------------- specifications
Init ==
    /\ world_size \in 1..MaxWorld
    /\ StatsInit /\ RegistryInit /\ BarrierInit /\ ClassInit /\ TrainingInit

Next == SetVerbosity \/ Reset \/ Report \/ WrappedCall \/ Resume

Spec == Init /\ [][Next]_vars

RegistryNext ==
    \/ Initialize \/ Shutdown \/ QueryIsInitialized \/ QueryGet
    \/ Provision \/ QueryGenerator

SpecRegistry == Init /\ [][RegistryNext]_vars

InitBarrier ==
    /\ world_size \in 1..MaxParties
    /\ StatsInit /\ RegistryInit /\ BarrierInit /\ ClassInit /\ TrainingInit

BarrierNext == PartySetVerbosity \/ PartyCall \/ PartyReturn \/ PartyRecover

SpecBarrier ==
    /\ InitBarrier
    /\ [][BarrierNext]_vars
    /\ WF_vars(PartyReturn)

VerbosityNext == CallSetVerbosity \/ CallIsVerbose

SpecVerbosity == Init /\ [][VerbosityNext]_vars

TrainingNext == RunMpcCifar \/ TrainEpoch

SpecTraining == Init /\ [][TrainingNext]_vars

\* ================================================================ claims
\* A state right after a wrapped call, and a step that is a wrapped call.
AfterCall == last_op = "call" /\ call.func # "none"
CallStep == call = NoCall /\ call' # NoCall

\* C1: with world_size 1, gather/all_gather(x) returns [x], every other
\* payload collective on x returns x, and the backend is never invoked,
\* whatever the verbosity and however the payload is passed.
C1_SinglePartyShortcut ==
    (AfterCall /\ call.ws = 1 /\ call.func \in PayloadFuncs) =>
        LET x == PayloadOf(call.args, call.kwargs) IN
        /\ call.outcome = "return"
        /\ call.backend = <<>>
        /\ call.ret = IF call.func \in {"gather", "all_gather"}
                      THEN Returned("list_of_payload", x, "none")
                      ELSE Returned("payload", x, "none")

\* C2: with verbosity on and world_size >= 2, after N plain collectives of k
\* elements each since the last reset, comm_rounds = N and
\* comm_bytes = N * k * BYTES_PER_ELEMENT.
C2_PlainCallsCounted ==
    (has_stats /\ world_size >= 2 /\ hist.plain /\ hist.n > 0) =>
        /\ comm_rounds = hist.n
        /\ comm_bytes = hist.n * hist.k * BYTES_PER_ELEMENT

\* C3: with world_size >= 2 a wrapped call gives its caller the same thing
\* with verbosity on as with verbosity off: the result of one backend
\* invocation with the caller's arguments, or that invocation's error.
C3_VerbosityIndependent ==
    (AfterCall /\ call.ws >= 2) =>
        \A b \in BackendOutcomes :
            LET st == Stats(TRUE, 0, 0, 0)
                on == LoggingWrapper(call.func, call.args, call.kwargs,
                                     call.ws, TRUE, st, b, 0)
                off == LoggingWrapper(call.func, call.args, call.kwargs,
                                      call.ws, FALSE, st, b, 0)
                one == <<Invocation(call.args, call.kwargs)>>
            IN /\ on.outcome = off.outcome
               /\ on.ret = off.ret
               /\ on.backend = one /\ off.backend = one
               /\ on.outcome = "return" <=> ~b.raises
               /\ ~b.raises => on.ret = Returned("backend", NoValue, b.val)

\* C4: with verbosity on and world_size >= 2, a wrapped barrier adds one to
\* comm_rounds, leaves comm_bytes alone and invokes the backend barrier.
C4_BarrierLogsOneRound ==
    [][(CallStep /\ call'.func = "barrier" /\ verbosity /\ world_size >= 2
        /\ has_stats) =>
            /\ comm_rounds' = comm_rounds + 1
            /\ comm_bytes' = comm_bytes
            /\ call'.backend = <<Invocation(<<>>, NoKwargs)>>]_vars

\* C5: with verbosity on and world_size >= 2, a wrapped scatter adds one to
\* comm_rounds and (element count of one per-party payload) *
\* (world_size - 1) * BYTES_PER_ELEMENT to comm_bytes, for every list passed.
C5_ScatterLogsWorldSize ==
    [][(CallStep /\ call'.func = "scatter" /\ verbosity /\ world_size >= 2
        /\ has_stats /\ PayloadOf(call'.args, call'.kwargs).items # <<>>) =>
            LET list == PayloadOf(call'.args, call'.kwargs).items IN
            /\ comm_rounds' = comm_rounds + 1
            /\ comm_bytes' = comm_bytes
                   + list[1] * (world_size - 1) * BYTES_PER_ELEMENT]_vars

\* C6: a reset leaves comm_rounds, comm_bytes and comm_time all zero, whatever
\* came before it, and a report issued right after it prints three zeros.
C6_ResetZeroesAll ==
    [][/\ last_op' = "reset" =>
            (has_stats' /\ comm_rounds' = 0 /\ comm_bytes' = 0
             /\ comm_time' = 0)
       /\ (last_op = "reset" /\ last_op' = "report") =>
            printed' = <<0, 0, 0>>]_vars

\* A report of zeros, printed after a reset that followed a counted call.
C6_Witness ==
    /\ last_op = "report" /\ printed = <<0, 0, 0>>
    /\ call.func # "none" /\ call.verbose /\ call.had_stats
    /\ call.ws >= 2 /\ call.outcome = "return"

\* C7: between resets no step makes comm_rounds, comm_bytes or comm_time
\* smaller, whatever the operation, the world size and the verbosity.
C7_CountersMonotonic ==
    [][last_op' # "reset" =>
            /\ comm_rounds' >= comm_rounds
            /\ comm_bytes' >= comm_bytes
            /\ comm_time' >= comm_time]_vars

\* Two counted calls in a row, with bytes and time recorded.
C7_Witness ==
    /\ AfterCall /\ comm_rounds = 2 /\ comm_bytes > 0 /\ comm_time > 0

\* C8: before any initialize and again after shutdown, is_initialized() is
\* false and get() fails NotInitialized; between initialize and shutdown,
\* is_initialized() is true and get() returns the handle.
C8_Lifecycle ==
    /\ query.op = "is_initialized" =>
           query.ret[2] = (IF life = "initialized" THEN 1 ELSE 0)
    /\ query.op = "get" =>
           IF life = "initialized"
           THEN query.err = "none" /\ query.ret[1] = "handle"
           ELSE query.err = "NotInitialized"
    /\ (query.op = "initialize" /\ query.err = "none") => life = "initialized"
    /\ query.op = "shutdown" => life = "shutdown"

\* get() failing after a shutdown.
C8_Witness ==
    life = "shutdown" /\ query.op = "get" /\ query.err = "NotInitialized"

C10_GetGenerator ==
    (query.op = "get_generator" /\ DeviceType(query.device) # "invalid") =>
        LET cuda == query.device \in {"cuda", "cuda:0"}
            name == <<"g", query.idx, IF cuda THEN "cuda" ELSE "">>
        IN IF query.idx \notin {0, 1}
           THEN query.err = "OutOfBounds"
           ELSE IF name \in gens
                THEN query.err = "none" /\ query.ret = name
                ELSE query.err = "GeneratorNotInitialized"

\* An out-of-range slot refused although an attribute of its name exists.
C10_Witness ==
    /\ query.op = "get_generator" /\ query.idx = 2 /\ query.device = "cuda"
    /\ query.err = "OutOfBounds"
    /\ <<"g", 2, "cuda">> \in gens

\* C12: a failure while the wrapper records stats never keeps the
\* communication from happening: the backend is still invoked for that call
\* and its result still returned.
C12_StatsFailureHarmless ==
    (AfterCall /\ call.verbose /\ call.ws >= 2) =>
        /\ call.backend = <<Invocation(call.args, call.kwargs)>>
        /\ ~call.b.raises =>
               /\ call.outcome = "return"
               /\ call.ret = Returned("backend", NoValue, call.b.val)

\* C13: with world_size 1 a collective returns the shape it returns with
\* more parties: gather/all_gather a sequence of world_size values, scatter
\* the caller's one destined value, an element of the list it was given.
C13_SinglePartyShape ==
    (AfterCall /\ call.ws = 1 /\ Len(call.args) > 0
     /\ call.func \in {"gather", "all_gather", "scatter"}
     /\ (call.func = "scatter" => Len(call.args[1].items) = call.ws)) =>
        IF call.func = "scatter"
        THEN /\ call.ret.x.kind = "tensor"
             /\ \E i \in DOMAIN call.args[1].items :
                    call.ret.x = Tensor(call.args[1].items[i])
        ELSE call.ret = Returned("list_of_payload", call.args[1], "none")

\* C14: with verbosity on and world_size >= 2, a call with the batched flag
\* true adds one round and the summed element counts of its items (times
\* BYTES_PER_ELEMENT); without the flag, or with it false, the payload counts
\* as one tensor.
C14_BatchedAccounting ==
    [][(CallStep /\ verbosity /\ world_size >= 2 /\ has_stats
        /\ call'.func \in PayloadFuncs \ {"scatter"}) =>
            LET x == PayloadOf(call'.args, call'.kwargs)
                count == IF call'.kwargs.batched = "true"
                         THEN SumElems(x.items) ELSE x.n
            IN /\ comm_rounds' = comm_rounds + 1
               /\ comm_bytes' = comm_bytes + count * BYTES_PER_ELEMENT]_vars

\* C15: while verbosity is off a wrapped call leaves the three counters as
\* they are, whether or not they exist, and a call that is not a single-party
\* payload collective invokes the backend once with the caller's arguments.
C15_QuietCallsLeaveStats ==
    [][(CallStep /\ ~verbosity) =>
            /\ UNCHANGED <<has_stats, comm_rounds, comm_bytes, comm_time>>
            /\ ~(world_size < 2 /\ call'.func \in PayloadFuncs) =>
                   /\ call'.backend = <<Invocation(call'.args, call'.kwargs)>>
                   /\ call'.outcome = "return" <=> ~call'.b.raises]_vars

\* A quiet call on a communicator whose counters were never created.
C15_Witness ==
    /\ AfterCall /\ ~call.verbose /\ ~call.had_stats /\ call.ws >= 2
    /\ call.outcome = "return" /\ call.backend # <<>>

\* C16: with world_size < 2 a wrapped barrier still runs: the backend is
\* invoked once and its result returned, with verbosity on or off.
C16_SinglePartyBarrier ==
    (AfterCall /\ call.ws < 2 /\ call.func = "barrier") =>
        /\ call.backend = <<Invocation(<<>>, NoKwargs)>>
        /\ ~call.b.raises =>
               /\ call.outcome = "return"
               /\ call.ret = Returned("backend", NoValue, call.b.val)

\* C20: with world_size < 2 no wrapped call changes comm_rounds, comm_bytes
\* or comm_time, whatever the function, the passing and the verbosity.
C20_SinglePartyNoStats ==
    [][(CallStep /\ world_size < 2) =>
            UNCHANGED <<has_stats, comm_rounds, comm_bytes, comm_time>>]_vars

\* A verbose single-party barrier on a communicator with counters.
C20_Witness ==
    /\ AfterCall /\ call.ws = 1 /\ call.verbose /\ call.had_stats
    /\ call.func = "barrier"

\* C17: a backend failure surfaces to the caller of that call, and the next
\* wrapped call behaves as on a communicator that saw no failure: same
\* outcome, same backend invocation, the counters moved by its own amounts;
\* a plain collective with a positional payload and world_size >= 2 reaches
\* the backend and, when verbose, counts as one round.
C17_FailureIsolated ==
    [][/\ (CallStep /\ call'.backend # <<>> /\ call'.b.raises) =>
              /\ call'.outcome = "raise"
              /\ call'.err = "CommunicationError"
              /\ has_stats' = has_stats
       /\ (CallStep /\ last_op = "failed") =>
              /\ \E b \in BackendOutcomes, d \in 0..MaxDur :
                   LET r == LoggingWrapper(call'.func, call'.args,
                                           call'.kwargs, world_size, verbosity,
                                           Stats(has_stats, 0, 0, 0), b, d)
                   IN /\ call'.outcome = r.outcome /\ call'.err = r.err
                      /\ call'.ret = r.ret /\ call'.backend = r.backend
                      /\ has_stats' = has_stats
                      /\ comm_rounds' = comm_rounds + r.st.rounds
                      /\ comm_bytes' = comm_bytes + r.st.bytes
                      /\ comm_time' = comm_time + r.st.time
              /\ (world_size >= 2 /\ Len(call'.args) > 0
                  /\ call'.func \in PayloadFuncs \ {"scatter"}
                  /\ call'.kwargs.batched # "true"
                  /\ (verbosity => has_stats)) =>
                     /\ call'.backend =
                            <<Invocation(call'.args, call'.kwargs)>>
                     /\ verbosity => comm_rounds' = comm_rounds + 1]_vars

\* A counted call that returned, made right after a call the backend failed.
C17_Witness ==
    /\ AfterCall /\ call.after_failure /\ call.verbose /\ call.ws >= 2
    /\ call.outcome = "return" /\ comm_rounds = 2

\* C18: get_generator(idx, device) with idx 0 or 1 resolves by slot and device
\* class: with the device omitted (or a cpu device) the only generator it can
\* return is the cpu generator of slot idx, with a cuda device the cuda
\* generator of slot idx; it returns it exactly when it is provisioned, and
\* otherwise returns nothing, whatever else is provisioned.
C18_SlotAndClass ==
    \A i \in {0, 1} :
        /\ (query.op = "get_generator" /\ query.idx = i
            /\ query.device \in {"None", "cpu"}) =>
               /\ query.ret \in {<<"g", i, "">>, NoGenerator}
               /\ query.ret = <<"g", i, "">> <=> <<"g", i, "">> \in gens
               /\ query.ret = NoGenerator <=> query.err # "none"
        /\ (query.op = "get_generator" /\ query.idx = i
            /\ query.device \in {"cuda", "cuda:0"}) =>
               /\ query.ret \in {<<"g", i, "cuda">>, NoGenerator}
               /\ query.ret = <<"g", i, "cuda">> <=> <<"g", i, "cuda">> \in gens
               /\ query.ret = NoGenerator <=> query.err # "none"

\* Slot 0 asked without a device while only its cuda generator and the cpu
\* generator of slot 1 exist: nothing is returned.
C18_Witness ==
    /\ query.op = "get_generator" /\ query.idx = 0 /\ query.device = "None"
    /\ query.ret = NoGenerator /\ query.err = "GeneratorNotInitialized"
    /\ <<"g", 0, "cuda">> \in gens /\ <<"g", 1, "">> \in gens
    /\ <<"g", 0, "">> \notin gens

\* C11: verbosity is one flag for the process: after set_verbosity(v) through
\* Communicator, a class derived from it or an instance, is_verbose() is v
\* through every class and instance, and no two classes read different
\* values.
C11_OneFlag ==
    /\ (vquery.op = "set_verbosity" /\ vquery.err = "none") =>
           \A c \in Classes : IsVerbose(c, cls_verbosity) = vquery.arg
    /\ \A c, d \in Classes :
           IsVerbose(c, cls_verbosity) = IsVerbose(d, cls_verbosity)

\* C19: adjust_learning_rate sets every parameter group to the initial lr
\* decayed by 10 once per 30 epochs, lr * 0.1^(epoch div 30).
C19_DecayEvery30 ==
    adjusted # -1 =>
        \A g \in DOMAIN param_groups :
            param_groups[g] = TimesTenthPower(lr, adjusted \div 30)

\* C21: in a verbose call with world_size >= 2 the round and the bytes are
\* recorded before the backend is invoked and the time only after it has
\* returned: a call that reaches the backend has added one round and the
\* bytes of its payload; when the backend fails the call raises with that
\* round and those bytes counted and comm_time as it was; and a call that
\* never reaches the backend leaves comm_time as it was.
C21_CountedBeforeBackend ==
    [][/\ (CallStep /\ verbosity /\ world_size >= 2
           /\ call'.backend # <<>>) =>
              LET x == PayloadOf(call'.args, call'.kwargs)
                  count == IF call'.func = "scatter"
                           THEN IF x.items = <<>> THEN 0
                                ELSE x.items[1] * (world_size - 1)
                           ELSE IF call'.kwargs.batched = "true"
                           THEN SumElems(x.items)
                           ELSE x.n
              IN /\ comm_rounds' = comm_rounds + 1
                 /\ comm_bytes' >= comm_bytes
                 /\ (call'.func = "scatter" => Len(x.items) = world_size) =>
                        comm_bytes' = comm_bytes + count * BYTES_PER_ELEMENT
                 /\ IF call'.b.raises
                    THEN /\ call'.outcome = "raise"
                         /\ comm_time' = comm_time
                    ELSE /\ call'.outcome = "return"
                         /\ comm_time' >= comm_time
       /\ (CallStep /\ verbosity /\ world_size >= 2
           /\ call'.backend = <<>>) =>
              comm_time' = comm_time]_vars

\* A second verbose call whose backend failed: counted as the second round,
\* the time still what the first call took.
C21_Witness ==
    /\ AfterCall /\ call.verbose /\ call.ws >= 2
    /\ call.backend # <<>> /\ call.b.raises /\ call.outcome = "raise"
    /\ comm_rounds = 2 /\ comm_bytes = 2 * BYTES_PER_ELEMENT
    /\ comm_time = MaxDur

====
